---- MODULE Spec2Model ----
(***************************************************************************)
(* A model of nova/auth/manager.py: the AuthManager role checks and        *)
(* request authentication, and the Vpn port pool kept in redis.            *)
(*                                                                         *)
(* The identity store (the auth driver), the request signer and the        *)
(* datastore base class are collaborators whose code is not in manager.py; *)
(* they are modelled by their contract (drv_*, Signer_*, the redis set and *)
(* hash primitives).                                                       *)
(***************************************************************************)
EXTENDS Integers, Sequences, FiniteSets, TLC

VARIABLES
    userAdmin,      \* User.admin of every stored user
    projects,       \* the driver's project records: id -> [project_manager_id, member_ids]
    roles,          \* the driver's role grants: <<uid, role, scope>>, scope None = global
    use_vpn,        \* FLAGS.use_vpn
    vpn_end_port,   \* FLAGS.vpn_end_port
    freePorts,      \* the redis set 'ip:<vpn_ip>:ports'
    assoc,          \* the redis set of Vpn identifiers associated with 'ip', vpn_ip
    vpnRec,         \* the stored Vpn hashes: project_id -> port
    last,           \* the last completed call of a handler: its inputs and its outcome
    hist,           \* outcomes of the Vpn.create calls made before the first Vpn.destroy
    released,       \* whether Vpn.destroy has run
    pc,             \* per thread: the position inside Vpn.create / Vpn.destroy
    tproj,          \* per thread: the project_id the running call is about
    tport,          \* per thread: the local variable port (or self.port)
    ti,             \* per thread: the loop variable i of the seeding loop
    seedCount,      \* how many calls entered the seeding loop (capped)
    instance,       \* AuthManager._instance
    driver,         \* the attribute driver of the instance, None while not set
    key_pairs,      \* the driver's key pairs: <<uid, key_name>> -> how many are stored
    has_role_call   \* a has_role call under way: its position, arguments and reads

storeVars == <<userAdmin, projects, roles>>
flagVars == <<use_vpn, vpn_end_port>>
redisVars == <<freePorts, assoc, vpnRec>>
histVars == <<hist, released>>
threadVars == <<pc, tproj, tport, ti, seedCount>>
managerVars == <<instance, driver>>
keyVars == <<key_pairs>>
callVars == <<has_role_call>>
vars == <<userAdmin, projects, roles, use_vpn, vpn_end_port, freePorts, assoc,
          vpnRec, last, hist, released, pc, tproj, tport, ti, seedCount,
          instance, driver, key_pairs, has_role_call>>

----------------------------------------------------------------------------
(* Bounds of the model *)

\* the largest configured port range [vpn_start_port, vpn_end_port]
MaxPorts == 2
\* the largest number of role grants the store holds
MaxGrants == 2

(* Configuration and the universe of values *)

vpn_start_port == 1000
superuser_roles == {"cloudadmin"}
global_roles == {"cloudadmin", "itsec"}

None == "None"
NoPort == 0
Users == {"u1", "u2"}
ProjectIds == {"t1", "t2", "u2"}
Roles == {"cloudadmin", "itsec", "netadmin", "projectmanager"}
Threads == {"th1", "th2"}

\* User.name, User.access, User.secret of the stored users
user_name(u) == u
user_access(u) == IF u = "u1" THEN "AK1" ELSE "AK2"
user_secret(u) == IF u = "u1" THEN "SK1" ELSE "SK2"

Min(S) == CHOOSE x \in S : \A y \in S : x <= y

----------------------------------------------------------------------------
(* The auth driver (identity store) *)

drv_has_role(uid, role, project_id) == <<uid, role, project_id>> \in roles

drv_add_role(uid, role, project_id) == roles \cup {<<uid, role, project_id>>}

drv_remove_role(uid, role, project_id) == roles \ {<<uid, role, project_id>>}

drv_get_project(pid) == IF pid \in DOMAIN projects THEN pid ELSE None

drv_get_user_from_access_key(access_key) ==
    IF \E u \in Users : user_access(u) = access_key
    THEN CHOOSE u \in Users : user_access(u) = access_key
    ELSE None

drv_create_project(name, manager_uid, member_uids) ==
    [p \in DOMAIN projects \cup {name} |->
        IF p = name
        THEN [project_manager_id |-> manager_uid,
              member_ids |-> member_uids \cup {manager_uid}]
        ELSE projects[p]]

drv_delete_project(pid) == [p \in DOMAIN projects \ {pid} |-> projects[p]]

drv_add_to_project(uid, pid) ==
    [projects EXCEPT ![pid].member_ids = @ \cup {uid}]

drv_remove_from_project(uid, pid) ==
    [projects EXCEPT ![pid].member_ids = @ \ {uid}]

----------------------------------------------------------------------------
(* The request signer *)

Signer_generate(secret, params, verb, server_string, path) ==
    <<"ec2", secret, verb, server_string, path, params>>

Signer_s3_authorization(secret, headers, verb, path) ==
    <<"s3", secret, verb, "", path, headers>>

----------------------------------------------------------------------------
(* AuthManager: projects and roles *)

get_project(pid) == drv_get_project(pid)

get_user_from_access_key(access_key) == drv_get_user_from_access_key(access_key)

is_project_manager_by_grant(user, project) ==
    drv_has_role(user, "projectmanager", project)

is_project_manager(user, project) ==
    project \in DOMAIN projects /\ user = projects[project].project_manager_id

is_project_member_skipped(user, project) == TRUE

is_project_member(user, project) ==
    project \in DOMAIN projects /\ user \in projects[project].member_ids

\* has_role raises instead of returning: Error("Must specify project"), or the
\* AttributeError of is_project_manager when get_project returns None
has_role_raises(user, role, project) ==
    role = "projectmanager" /\ (project = None \/ get_project(project) = None)

has_role_union(user, role, project) ==
    IF role = "projectmanager"
    THEN is_project_manager(user, project)
    ELSE drv_has_role(user, role, None)
         \/ (project # None /\ drv_has_role(user, role, project))

has_role_no_global_shortcut(user, role, project) ==
    IF role = "projectmanager"
    THEN is_project_manager(user, project)
    ELSE LET global_role == drv_has_role(user, role, None) IN
         IF ~global_role THEN global_role
         ELSE IF project = None THEN global_role
         ELSE drv_has_role(user, role, project)

has_role(user, role, project) ==
    IF role = "projectmanager"
    THEN is_project_manager(user, project)
    ELSE LET global_role == drv_has_role(user, role, None) IN
         IF ~global_role THEN global_role
         ELSE IF project = None \/ role \in global_roles THEN global_role
         ELSE drv_has_role(user, role, project)

is_superuser_any_scope(user) ==
    userAdmin[user]
    \/ \E role \in superuser_roles, scope \in {None} \cup ProjectIds :
          drv_has_role(user, role, scope)

is_superuser_roles_only(user) ==
    \E role \in superuser_roles : has_role(user, role, None)

is_superuser(user) ==
    userAdmin[user] \/ \E role \in superuser_roles : has_role(user, role, None)

is_admin(user) ==
    is_superuser(user) \/ \E role \in global_roles : has_role(user, role, None)

----------------------------------------------------------------------------
(* AuthManager.authenticate *)

\* str.partition(':') on a string given as its sequence of tokens
partition(s) ==
    LET idx == {i \in 1..Len(s) : s[i] = ":"} IN
    IF idx = {} THEN <<s, <<>>, <<>>>>
    ELSE <<SubSeq(s, 1, Min(idx) - 1), <<":">>, SubSeq(s, Min(idx) + 1, Len(s))>>

\* the string a token sequence spells; the strings of several tokens name nothing
Str(s) == IF s = <<>> THEN "" ELSE IF Len(s) = 1 THEN s[1] ELSE "<compound>"

default_verb == "GET"
default_server_string == "127.0.0.1:8773"
default_path == "/"

signature_rejected_ec2_only(check_type, signature, user, params, headers) ==
    check_type = "ec2"
    /\ signature # Signer_generate(user_secret(user), params, default_verb,
                                   default_server_string, default_path)

signature_rejected_default_ec2(check_type, signature, user, params, headers) ==
    IF check_type = "s3"
    THEN signature # Signer_s3_authorization(user_secret(user), headers,
                                             default_verb, default_path)
    ELSE signature # Signer_generate(user_secret(user), params, default_verb,
                                     default_server_string, default_path)

signature_rejected_never(check_type, signature, user, params, headers) == FALSE

\* the check_type branches: TRUE when NotAuthorized is raised
signature_rejected(check_type, signature, user, params, headers) ==
    IF check_type = "s3"
    THEN signature # Signer_s3_authorization(user_secret(user), headers,
                                             default_verb, default_path)
    ELSE IF check_type = "ec2"
    THEN signature # Signer_generate(user_secret(user), params, default_verb,
                                     default_server_string, default_path)
    ELSE FALSE

Rejected(error, stage) ==
    [result |-> error, stage |-> stage, user |-> None, project |-> None]

authenticate_signature_first(access, signature, params, check_type, headers) ==
    LET parts == partition(access)
        access_key == Str(parts[1])
        user == get_user_from_access_key(access_key)
    IN  IF user = None THEN Rejected("NotFound", "user")
        ELSE
        LET project_id == IF parts[3] = <<>> THEN user_name(user) ELSE Str(parts[3])
            project == get_project(project_id)
        IN  IF project = None THEN Rejected("NotFound", "project")
            ELSE IF signature_rejected(check_type, signature, user, params, headers)
            THEN Rejected("NotAuthorized", "signature")
            ELSE IF ~is_admin(user) /\ ~is_project_member(user, project)
            THEN Rejected("NotFound", "membership")
            ELSE [result |-> "ok", stage |-> "done", user |-> user,
                  project |-> project]

authenticate(access, signature, params, check_type, headers) ==
    LET parts == partition(access)
        access_key == Str(parts[1])
        user == get_user_from_access_key(access_key)
    IN  IF user = None THEN Rejected("NotFound", "user")
        ELSE
        LET project_id == IF parts[3] = <<>> THEN user_name(user) ELSE Str(parts[3])
            project == get_project(project_id)
        IN  IF project = None THEN Rejected("NotFound", "project")
            ELSE IF ~is_admin(user) /\ ~is_project_member(user, project)
            THEN Rejected("NotFound", "membership")
            ELSE IF signature_rejected(check_type, signature, user, params, headers)
            THEN Rejected("NotAuthorized", "signature")
            ELSE [result |-> "ok", stage |-> "done", user |-> user,
                  project |-> project]

----------------------------------------------------------------------------
(* Vpn: the port pool of FLAGS.vpn_ip in redis *)

\* redis.exists(key) of a set key: redis keeps no empty set
redis_exists(members) == members # {}

\* range(FLAGS.vpn_start_port, FLAGS.vpn_end_port + 1)
port_range == vpn_start_port..vpn_end_port

num_ports_for_ip == Cardinality(freePorts)

seeded_on_every_call(free, associated) == free \cup port_range

\* the free set after the seeding test and loop of find_free_port_for_ip,
\* run without interruption
seeded(free, associated) ==
    IF ~redis_exists(free) /\ ~redis_exists(associated)
    THEN free \cup port_range
    ELSE free

\* Vpn.save: associate_with('ip', self.ip), then the hash of the record
save_assoc(associated, project_id) == associated \cup {project_id}

save_record(records, project_id, port) ==
    [p \in DOMAIN records \cup {project_id} |->
        IF p = project_id THEN port ELSE records[p]]

\* Vpn.destroy: unassociate_with, sadd of the port, delete of the hash
destroy_assoc(associated, project_id) == associated \ {project_id}

destroy_sadd_dropped(free, port) == free

destroy_sadd(free, port) == free \cup {port}

destroy_record(records, project_id) ==
    [p \in DOMAIN records \ {project_id} |-> records[p]]

----------------------------------------------------------------------------
(* The inputs of the calls *)

GrantScopes == {None, "t1"}
CheckScopes == {None, "t1", "t2"}
AccessKeys == {"AK1", "AK2", "AKx"}
AccessStrings ==
    {<<k>> : k \in AccessKeys}
    \cup {<<"AK1", ":", p>> : p \in ProjectIds}
    \cup {<<"AK2", ":", "t1">>}
ParamLists == {"Action=a", "Action=b"}
HeaderLists == {"Date=d"}
CheckTypes == {"ec2", "s3", "none"}
Signatures ==
    {Signer_generate(user_secret(u), "Action=a", default_verb,
                     default_server_string, default_path) : u \in Users}
    \cup {Signer_s3_authorization(user_secret("u1"), h, default_verb,
                                  default_path) : h \in HeaderLists}

----------------------------------------------------------------------------
(* The handlers as actions *)

Idle == [t \in Threads |-> "idle"]

KeyNames == {"k1", "k2", "k3"}

\* no has_role call is under way
NoCall == [pc |-> "idle", user |-> None, role |-> None, project |-> None,
           both |-> FALSE]

\* AuthManager() has returned the instance with its driver loaded
Constructed == instance = "AuthManager" /\ driver = "FakeLdapDriver"

InitCommon ==
    /\ key_pairs = [k \in Users \X KeyNames |-> 0]
    /\ has_role_call = NoCall
    /\ last = [op |-> "init"]
    /\ hist = <<>>
    /\ released = FALSE
    /\ pc = Idle
    /\ tproj = [t \in Threads |-> None]
    /\ tport = [t \in Threads |-> NoPort]
    /\ ti = [t \in Threads |-> NoPort]
    /\ seedCount = 0
    /\ freePorts = {}
    /\ assoc = {}
    /\ vpnRec = <<>>

\* the store as earlier administration left it: each project with its manager
StoredProjects ==
    [p \in {"t1", "u2"} |->
        [project_manager_id |-> IF p = "t1" THEN "u1" ELSE "u2",
         member_ids |-> {IF p = "t1" THEN "u1" ELSE "u2"}]]

AddRole(user, role, project) ==
    /\ Cardinality(drv_add_role(user, role, project)) <= MaxGrants
    /\ roles' = drv_add_role(user, role, project)
    /\ last' = [op |-> "add_role", user |-> user, role |-> role,
                project |-> project, result |-> "ok"]
    /\ UNCHANGED <<userAdmin, projects, flagVars, managerVars, keyVars, callVars, redisVars, histVars, threadVars>>

RemoveRole(user, role, project) ==
    /\ roles' = drv_remove_role(user, role, project)
    /\ last' = [op |-> "remove_role", user |-> user, role |-> role,
                project |-> project, result |-> "ok"]
    /\ UNCHANGED <<userAdmin, projects, flagVars, managerVars, keyVars, callVars, redisVars, histVars, threadVars>>

HasRole(user, role, project) ==
    /\ last' = [op |-> "has_role", user |-> user, role |-> role,
                project |-> project,
                result |-> IF has_role_raises(user, role, project) THEN "Error"
                           ELSE IF has_role(user, role, project) THEN "True"
                           ELSE "False"]
    /\ UNCHANGED <<storeVars, flagVars, managerVars, keyVars, callVars, redisVars, histVars, threadVars>>

AddToProject(user, project) ==
    /\ project \in DOMAIN projects
    /\ projects' = drv_add_to_project(user, project)
    /\ last' = [op |-> "add_to_project", user |-> user, project |-> project]
    /\ UNCHANGED <<userAdmin, roles, flagVars, managerVars, keyVars, callVars, redisVars, histVars, threadVars>>

RemoveFromProject(user, project) ==
    /\ project \in DOMAIN projects
    /\ projects' = drv_remove_from_project(user, project)
    /\ last' = [op |-> "remove_from_project", user |-> user, project |-> project]
    /\ UNCHANGED <<userAdmin, roles, flagVars, managerVars, keyVars, callVars, redisVars, histVars, threadVars>>

\* is_superuser and is_admin return True, or fall off the loop and return None
IsSuperuser(user) ==
    /\ last' = [op |-> "is_superuser", user |-> user,
                result |-> IF is_superuser(user) THEN "True" ELSE "None"]
    /\ UNCHANGED <<storeVars, flagVars, managerVars, keyVars, callVars, redisVars, histVars, threadVars>>

IsAdmin(user) ==
    /\ last' = [op |-> "is_admin", user |-> user,
                result |-> IF is_admin(user) THEN "True" ELSE "None"]
    /\ UNCHANGED <<storeVars, flagVars, managerVars, keyVars, callVars, redisVars, histVars, threadVars>>

Authenticate_joining(access, signature, params, check_type, headers) ==
    LET ret == authenticate(access, signature, params, check_type, headers)
    IN  /\ last' = [op |-> "authenticate", access |-> access,
                    signature |-> signature, params |-> params,
                    check_type |-> check_type, headers |-> headers, ret |-> ret]
        /\ projects' = IF ret.result = "ok"
                       THEN drv_add_to_project(ret.user, ret.project)
                       ELSE projects
        /\ UNCHANGED <<userAdmin, roles, flagVars, managerVars, keyVars, callVars,
                       redisVars, histVars, threadVars>>

Authenticate(access, signature, params, check_type, headers) ==
    /\ last' = [op |-> "authenticate", access |-> access, signature |-> signature,
                params |-> params, check_type |-> check_type, headers |-> headers,
                ret |-> authenticate(access, signature, params, check_type, headers)]
    /\ UNCHANGED <<storeVars, flagVars, managerVars, keyVars, callVars, redisVars, histVars, threadVars>>

----------------------------------------------------------------------------
(* Role administration and role checks *)

InitRbac ==
    /\ InitCommon
    /\ Constructed
    /\ userAdmin = [u \in Users |-> FALSE]
    /\ projects = StoredProjects
    /\ roles = {}
    /\ use_vpn = TRUE
    /\ vpn_end_port = vpn_start_port + MaxPorts - 1

NextRbac ==
    \/ \E u \in Users, r \in Roles, s \in GrantScopes : AddRole(u, r, s)
    \/ \E u \in Users, r \in Roles, s \in GrantScopes : RemoveRole(u, r, s)
    \/ \E u \in Users, r \in Roles, s \in CheckScopes : HasRole(u, r, s)
    \/ \E u \in Users : IsSuperuser(u)
    \/ \E u \in Users : IsAdmin(u)

SpecRbac == InitRbac /\ [][NextRbac]_vars

----------------------------------------------------------------------------
(* AuthManager(): the singleton and its driver *)

\* AuthManager.__new__; loadable: whether the module and class that
\* FLAGS.auth_driver names can be imported when the call is made
AuthManagerNew(loadable) ==
    /\ IF instance = None
       THEN /\ instance' = "AuthManager"
            /\ driver' = IF loadable THEN "FakeLdapDriver" ELSE driver
            /\ last' = [op |-> "AuthManager",
                        result |-> IF loadable THEN "instance" ELSE "Error"]
       ELSE /\ UNCHANGED managerVars
            /\ last' = [op |-> "AuthManager", result |-> "instance"]
    /\ UNCHANGED <<storeVars, flagVars, keyVars, callVars, redisVars, histVars,
                   threadVars>>

\* a method of an instance whose driver was never set: self.driver() fails
HasRoleWithoutDriver(user, role, project) ==
    /\ instance # None
    /\ driver = None
    /\ last' = [op |-> "has_role", user |-> user, role |-> role,
                project |-> project, result |-> "AttributeError"]
    /\ UNCHANGED <<storeVars, flagVars, managerVars, keyVars, callVars, redisVars,
                   histVars, threadVars>>

InitSingleton ==
    /\ InitCommon
    /\ instance = None
    /\ driver = None
    /\ userAdmin = [u \in Users |-> FALSE]
    /\ projects = StoredProjects
    /\ roles = {}
    /\ use_vpn = TRUE
    /\ vpn_end_port = vpn_start_port + MaxPorts - 1

\* the methods of an instance whose driver is set
LoadedAddRole(user, role, project) == driver # None /\ AddRole(user, role, project)
LoadedRemoveRole(user, role, project) == driver # None /\ RemoveRole(user, role, project)
LoadedHasRole(user, role, project) == driver # None /\ HasRole(user, role, project)

NextSingleton ==
    \/ \E loadable \in BOOLEAN : AuthManagerNew(loadable)
    \/ \E u \in Users, r \in global_roles, s \in GrantScopes :
          HasRoleWithoutDriver(u, r, s)
    \/ \E u \in Users, r \in global_roles, s \in GrantScopes : LoadedAddRole(u, r, s)
    \/ \E u \in Users, r \in global_roles, s \in GrantScopes : LoadedRemoveRole(u, r, s)
    \/ \E u \in Users, r \in global_roles, s \in GrantScopes : LoadedHasRole(u, r, s)

SpecSingleton == InitSingleton /\ [][NextSingleton]_vars

----------------------------------------------------------------------------
(* Key pairs *)

\* user ids a caller may pass: the stored users and one that is not stored
UserIds == Users \cup {"ux"}

\* the driver's user and key pair calls, by their contract
drv_get_user(uid) == uid \in Users

drv_get_key_pair(uid, key_name) ==
    uid \in Users /\ key_pairs[<<uid, key_name>>] > 0

drv_create_key_pair(uid, key_name) ==
    [key_pairs EXCEPT ![<<uid, key_name>>] = @ + 1]

drv_delete_key_pair(uid, key_name) ==
    [key_pairs EXCEPT ![<<uid, key_name>>] = 0]

generate_key_pair_unchecked(user, key_name) ==
    IF ~drv_get_user(user) THEN "NotFound" ELSE "ok"

\* the checks generate_key_pair makes before it generates a key
generate_key_pair_check(user, key_name) ==
    IF ~drv_get_user(user) THEN "NotFound"
    ELSE IF drv_get_key_pair(user, key_name) THEN "Duplicate"
    ELSE "ok"

\* generate_key_pair: the checks, crypto.generate_key_pair, create_key_pair
GenerateKeyPair(user, key_name) ==
    LET result == generate_key_pair_check(user, key_name)
    IN  /\ key_pairs' = IF result = "ok" THEN drv_create_key_pair(user, key_name)
                        ELSE key_pairs
        /\ last' = [op |-> "generate_key_pair", user |-> user,
                    key_name |-> key_name, result |-> result,
                    generated |-> (result = "ok"), before |-> key_pairs]
        /\ UNCHANGED <<storeVars, flagVars, managerVars, callVars, redisVars,
                       histVars, threadVars>>

DeleteKeyPair(user, key_name) ==
    /\ key_pairs' = drv_delete_key_pair(user, key_name)
    /\ last' = [op |-> "delete_key_pair", user |-> user, key_name |-> key_name]
    /\ UNCHANGED <<storeVars, flagVars, managerVars, callVars, redisVars,
                   histVars, threadVars>>

InitKeys ==
    /\ InitCommon
    /\ Constructed
    /\ userAdmin = [u \in Users |-> FALSE]
    /\ projects = StoredProjects
    /\ roles = {}
    /\ use_vpn = TRUE
    /\ vpn_end_port = vpn_start_port + MaxPorts - 1

NextKeys ==
    \/ \E u \in UserIds, k \in KeyNames : GenerateKeyPair(u, k)
    \/ \E u \in Users, k \in KeyNames : DeleteKeyPair(u, k)

SpecKeys == InitKeys /\ [][NextKeys]_vars

----------------------------------------------------------------------------
(* Authentication of requests *)

InitAuth ==
    /\ InitCommon
    /\ Constructed
    /\ userAdmin \in [Users -> BOOLEAN]
    /\ projects = StoredProjects
    /\ roles = {}
    /\ use_vpn = TRUE
    /\ vpn_end_port = vpn_start_port + MaxPorts - 1

NextAuth ==
    \/ \E u \in Users, r \in global_roles : AddRole(u, r, None)
    \/ \E u \in Users, r \in global_roles : RemoveRole(u, r, None)
    \/ \E p \in ProjectIds : AddToProject("u1", p)
    \/ \E p \in ProjectIds : RemoveFromProject("u1", p)
    \/ \E a \in AccessStrings, s \in Signatures, p \in ParamLists,
          c \in CheckTypes, h \in HeaderLists : Authenticate(a, s, p, c, h)
    \/ \E u \in Users : IsSuperuser(u)
    \/ \E u \in Users : IsAdmin(u)

SpecAuth == InitAuth /\ [][NextAuth]_vars

----------------------------------------------------------------------------
(* has_role, one driver call per step, among add_role and remove_role *)

ConcurrentRoles == {"netadmin", "itsec"}

\* whether the grants hold the global and the project grant of the call
HeldBoth(grants, call) ==
    /\ <<call.user, call.role, None>> \in grants
    /\ <<call.user, call.role, call.project>> \in grants

\* has_role is entered with a role other than 'projectmanager'
HasRoleBegin(user, role, project) ==
    /\ has_role_call.pc = "idle"
    /\ LET call == [pc |-> "global", user |-> user, role |-> role,
                    project |-> project, both |-> FALSE]
       IN  has_role_call' = [call EXCEPT !.both = HeldBoth(roles, call)]
    /\ UNCHANGED <<storeVars, flagVars, managerVars, keyVars, redisVars, last,
                   histVars, threadVars>>

HasRoleReturn(result) ==
    /\ last' = [op |-> "has_role", user |-> has_role_call.user,
                role |-> has_role_call.role, project |-> has_role_call.project,
                result |-> IF result THEN "True" ELSE "False",
                both |-> has_role_call.both]
    /\ has_role_call' = NoCall

\* global_role = drv.has_role(uid, role, None) and the two early returns
HasRoleGlobal ==
    /\ has_role_call.pc = "global"
    /\ LET global_role == drv_has_role(has_role_call.user, has_role_call.role, None)
       IN  IF ~global_role THEN HasRoleReturn(FALSE)
           ELSE IF has_role_call.project = None
                   \/ has_role_call.role \in global_roles
           THEN HasRoleReturn(TRUE)
           ELSE /\ has_role_call' = [has_role_call EXCEPT !.pc = "project"]
                /\ UNCHANGED last
    /\ UNCHANGED <<storeVars, flagVars, managerVars, keyVars, redisVars,
                   histVars, threadVars>>

\* return drv.has_role(uid, role, project_id)
HasRoleProject ==
    /\ has_role_call.pc = "project"
    /\ HasRoleReturn(drv_has_role(has_role_call.user, has_role_call.role,
                                  has_role_call.project))
    /\ UNCHANGED <<storeVars, flagVars, managerVars, keyVars, redisVars,
                   histVars, threadVars>>

\* the call under way once the grants have changed
Observed(grants) ==
    [has_role_call EXCEPT !.both = @ \/ (has_role_call.pc # "idle"
                                         /\ HeldBoth(grants, has_role_call))]

\* add_role by another caller while has_role may be under way
ConcurrentAddRole(user, role, project) ==
    /\ Cardinality(drv_add_role(user, role, project)) <= MaxGrants
    /\ roles' = drv_add_role(user, role, project)
    /\ has_role_call' = Observed(drv_add_role(user, role, project))
    /\ UNCHANGED <<userAdmin, projects, flagVars, managerVars, keyVars, redisVars,
                   last, histVars, threadVars>>

\* remove_role by another caller while has_role may be under way
ConcurrentRemoveRole(user, role, project) ==
    /\ roles' = drv_remove_role(user, role, project)
    /\ has_role_call' = Observed(drv_remove_role(user, role, project))
    /\ UNCHANGED <<userAdmin, projects, flagVars, managerVars, keyVars, redisVars,
                   last, histVars, threadVars>>

NextRbacConc ==
    \/ \E u \in Users, r \in ConcurrentRoles, s \in GrantScopes : HasRoleBegin(u, r, s)
    \/ HasRoleGlobal
    \/ HasRoleProject
    \/ \E u \in Users, r \in ConcurrentRoles, s \in GrantScopes :
          ConcurrentAddRole(u, r, s)
    \/ \E u \in Users, r \in ConcurrentRoles, s \in GrantScopes :
          ConcurrentRemoveRole(u, r, s)

SpecRbacConc == InitRbac /\ [][NextRbacConc]_vars

----------------------------------------------------------------------------
(* Authentication among the calls that write the stores *)

InitFrame ==
    /\ InitCommon
    /\ Constructed
    /\ userAdmin \in {[u \in Users |-> u = "u1" /\ b] : b \in BOOLEAN}
    /\ projects = StoredProjects
    /\ roles = {}
    /\ use_vpn = TRUE
    /\ vpn_end_port = vpn_start_port + MaxPorts - 1

NextFrame ==
    \/ \E r \in global_roles : AddRole("u1", r, None)
    \/ \E r \in global_roles : RemoveRole("u1", r, None)
    \/ \E p \in ProjectIds : AddToProject("u1", p)
    \/ \E p \in ProjectIds : RemoveFromProject("u1", p)
    \/ GenerateKeyPair("u1", "k1")
    \/ DeleteKeyPair("u1", "k1")
    \/ \E a \in AccessStrings, s \in Signatures, c \in CheckTypes, h \in HeaderLists :
          Authenticate(a, s, "Action=a", c, h)

SpecFrame == InitFrame /\ [][NextFrame]_vars

----------------------------------------------------------------------------
(* Project creation and deletion, each call run to completion *)

Record(outcome) ==
    IF released \/ Len(hist) > MaxPorts THEN hist ELSE Append(hist, outcome)

CreateProject(name, manager_user, member_users) ==
    \/ /\ name \in DOMAIN projects
       /\ last' = [op |-> "create_project", project |-> name,
                   result |-> "Duplicate", port |-> NoPort,
                   pre_count |-> num_ports_for_ip]
       /\ UNCHANGED <<storeVars, flagVars, managerVars, keyVars, callVars, redisVars, histVars, threadVars>>
    \/ /\ name \notin DOMAIN projects
       /\ ~use_vpn
       /\ projects' = drv_create_project(name, manager_user, member_users)
       /\ last' = [op |-> "create_project", project |-> name, result |-> "ok",
                   port |-> NoPort, pre_count |-> num_ports_for_ip]
       /\ UNCHANGED <<userAdmin, roles, flagVars, managerVars, keyVars, callVars, redisVars, histVars, threadVars>>
    \/ /\ name \notin DOMAIN projects
       /\ use_vpn
       /\ seeded(freePorts, assoc) = {}
       /\ projects' = drv_create_project(name, manager_user, member_users)
       /\ freePorts' = seeded(freePorts, assoc)
       /\ hist' = Record(NoPort)
       /\ last' = [op |-> "create_project", project |-> name,
                   result |-> "NoMorePorts", port |-> NoPort,
                   pre_count |-> num_ports_for_ip]
       /\ UNCHANGED <<userAdmin, roles, flagVars, managerVars, keyVars, callVars, assoc, vpnRec, released, threadVars>>
    \/ /\ name \notin DOMAIN projects
       /\ use_vpn
       /\ \E port \in seeded(freePorts, assoc) :
            /\ freePorts' = seeded(freePorts, assoc) \ {port}
            /\ assoc' = save_assoc(assoc, name)
            /\ vpnRec' = save_record(vpnRec, name, port)
            /\ hist' = Record(port)
            /\ last' = [op |-> "create_project", project |-> name,
                        result |-> "ok", port |-> port,
                        pre_count |-> num_ports_for_ip]
       /\ projects' = drv_create_project(name, manager_user, member_users)
       /\ UNCHANGED <<userAdmin, roles, flagVars, managerVars, keyVars, callVars, released, threadVars>>

DeleteProject(project) ==
    /\ project \in DOMAIN projects
    /\ projects' = drv_delete_project(project)
    /\ last' = [op |-> "delete_project", project |-> project,
                had_vpn |-> project \in DOMAIN vpnRec,
                pre_count |-> num_ports_for_ip]
    /\ UNCHANGED <<userAdmin, roles, flagVars, managerVars, keyVars, callVars, redisVars, histVars, threadVars>>

\* Vpn.lookup(project).destroy()
VpnDestroy(project) ==
    /\ project \in DOMAIN vpnRec
    /\ assoc' = destroy_assoc(assoc, project)
    /\ freePorts' = destroy_sadd(freePorts, vpnRec[project])
    /\ vpnRec' = destroy_record(vpnRec, project)
    /\ released' = TRUE
    /\ hist' = <<>>
    /\ last' = [op |-> "Vpn.destroy", project |-> project,
                port |-> vpnRec[project],
                after_create |-> /\ last.op = "create_project"
                                 /\ last.result = "ok"
                                 /\ last.port # NoPort
                                 /\ last.project = project,
                pre_count |-> IF last.op = "create_project"
                              THEN last.pre_count ELSE 0]
    /\ UNCHANGED <<storeVars, flagVars, managerVars, keyVars, callVars, threadVars>>

InitPool ==
    /\ InitCommon
    /\ Constructed
    /\ userAdmin = [u \in Users |-> FALSE]
    /\ projects = [p \in {} |-> None]
    /\ roles = {}
    /\ vpn_end_port \in {vpn_start_port + n - 1 : n \in 1..MaxPorts}

\* forms of the project argument of get_credentials: a Project object, a
\* project id, or None (the default)
ProjectForms == {"object", "id", "None"}

\* get_credentials(user, project): the zip when a Vpn record is stored for
\* the project; without one, exception.Error whose message reads project.name,
\* an attribute only a Project object has
GetCredentials(user, project, form) ==
    LET arg == IF form = "None" THEN user_name(user) ELSE project
        pid == arg
    IN  /\ form = "object" => project \in DOMAIN projects
        /\ form = "None" => project = None
        /\ form # "None" => project \in ProjectIds
        /\ last' = [op |-> "get_credentials", user |-> user, project |-> pid,
                    form |-> form,
                    result |-> IF pid \in DOMAIN vpnRec THEN "bundle"
                               ELSE IF form = "object" THEN "Error"
                               ELSE "AttributeError"]
        /\ UNCHANGED <<storeVars, flagVars, managerVars, keyVars, callVars, redisVars, histVars, threadVars>>

InitVpn == InitPool /\ use_vpn \in BOOLEAN

NextVpn ==
    \/ \E name \in ProjectIds : CreateProject(name, "u1", {"u2"})
    \/ \E p \in ProjectIds : DeleteProject(p)
    \/ \E p \in ProjectIds : VpnDestroy(p)
    \/ \E user \in Users, p \in ProjectIds \cup {None}, form \in ProjectForms :
          GetCredentials(user, p, form)

SpecVpn == InitVpn /\ [][NextVpn]_vars

----------------------------------------------------------------------------
(* Vpn.create and Vpn.destroy, one datastore call per step, by several callers *)

CreatePcs == {"exists_ports", "exists_assoc", "seed", "spop", "associate", "hset"}
DestroyPcs == {"unassociate", "sadd", "delete"}

Goto(t, label) == pc' = [pc EXCEPT ![t] = label]

\* create_project: drv.create_project, then Vpn.create begins
StartCreate(t, name, manager_user, member_users) ==
    /\ pc[t] = "idle"
    /\ use_vpn
    /\ name \notin DOMAIN projects
    /\ projects' = drv_create_project(name, manager_user, member_users)
    /\ tproj' = [tproj EXCEPT ![t] = name]
    /\ Goto(t, "exists_ports")
    /\ UNCHANGED <<userAdmin, roles, flagVars, managerVars, keyVars, callVars, redisVars, last, histVars,
                   tport, ti, seedCount>>

\* not redis.exists(key)
CreateExistsPorts(t) ==
    /\ pc[t] = "exists_ports"
    /\ Goto(t, IF redis_exists(freePorts) THEN "spop" ELSE "exists_assoc")
    /\ UNCHANGED <<storeVars, flagVars, managerVars, keyVars, callVars, redisVars, last, histVars,
                   tproj, tport, ti, seedCount>>

\* not redis.exists(cls._redis_association_name('ip', ip))
CreateExistsAssoc(t) ==
    /\ pc[t] = "exists_assoc"
    /\ IF redis_exists(assoc)
       THEN Goto(t, "spop") /\ UNCHANGED <<ti, seedCount>>
       ELSE /\ Goto(t, "seed")
            /\ ti' = [ti EXCEPT ![t] = vpn_start_port]
            /\ seedCount' = IF seedCount < 2 THEN seedCount + 1 ELSE seedCount
    /\ UNCHANGED <<storeVars, flagVars, managerVars, keyVars, callVars, redisVars, last, histVars, tproj, tport>>

\* one turn of the loop: redis.sadd(key, i)
CreateSeed(t) ==
    /\ pc[t] = "seed"
    /\ freePorts' = freePorts \cup {ti[t]}
    /\ IF ti[t] >= vpn_end_port
       THEN Goto(t, "spop") /\ ti' = [ti EXCEPT ![t] = NoPort]
       ELSE ti' = [ti EXCEPT ![t] = @ + 1] /\ UNCHANGED pc
    /\ UNCHANGED <<storeVars, flagVars, managerVars, keyVars, callVars, assoc, vpnRec, last, histVars,
                   tproj, tport, seedCount>>

\* port = redis.spop(key); raise NoMorePorts if not port
CreateSpop(t) ==
    /\ pc[t] = "spop"
    /\ \/ /\ freePorts = {}
          /\ Goto(t, "idle")
          /\ tproj' = [tproj EXCEPT ![t] = None]
          /\ UNCHANGED <<freePorts, tport>>
       \/ \E port \in freePorts :
            /\ freePorts' = freePorts \ {port}
            /\ tport' = [tport EXCEPT ![t] = port]
            /\ Goto(t, "associate")
            /\ UNCHANGED tproj
    /\ UNCHANGED <<storeVars, flagVars, managerVars, keyVars, callVars, assoc, vpnRec, last, histVars, ti, seedCount>>

\* vpn.save(): self.associate_with('ip', self.ip)
CreateAssociate(t) ==
    /\ pc[t] = "associate"
    /\ assoc' = save_assoc(assoc, tproj[t])
    /\ Goto(t, "hset")
    /\ UNCHANGED <<storeVars, flagVars, managerVars, keyVars, callVars, freePorts, vpnRec, last, histVars,
                   tproj, tport, ti, seedCount>>

\* vpn.save(): super(Vpn, self).save()
CreateHset(t) ==
    /\ pc[t] = "hset"
    /\ vpnRec' = save_record(vpnRec, tproj[t], tport[t])
    /\ Goto(t, "idle")
    /\ tproj' = [tproj EXCEPT ![t] = None]
    /\ tport' = [tport EXCEPT ![t] = NoPort]
    /\ UNCHANGED <<storeVars, flagVars, managerVars, keyVars, callVars, freePorts, assoc, last, histVars,
                   ti, seedCount>>

\* vpn = Vpn.lookup(project); vpn.destroy() begins. Each allocation is
\* released by one caller.
StartDestroy(t, project) ==
    /\ pc[t] = "idle"
    /\ project \in DOMAIN vpnRec
    /\ \A o \in Threads : tproj[o] # project
    /\ tproj' = [tproj EXCEPT ![t] = project]
    /\ tport' = [tport EXCEPT ![t] = vpnRec[project]]
    /\ Goto(t, "unassociate")
    /\ UNCHANGED <<storeVars, flagVars, managerVars, keyVars, callVars, redisVars, last, histVars, ti, seedCount>>

\* self.unassociate_with('ip', self.ip)
DestroyUnassociate(t) ==
    /\ pc[t] = "unassociate"
    /\ assoc' = destroy_assoc(assoc, tproj[t])
    /\ Goto(t, "sadd")
    /\ UNCHANGED <<storeVars, flagVars, managerVars, keyVars, callVars, freePorts, vpnRec, last, histVars,
                   tproj, tport, ti, seedCount>>

\* redis.sadd('ip:%s:ports' % self.ip, self.port)
DestroySadd(t) ==
    /\ pc[t] = "sadd"
    /\ freePorts' = destroy_sadd(freePorts, tport[t])
    /\ Goto(t, "delete")
    /\ UNCHANGED <<storeVars, flagVars, managerVars, keyVars, callVars, assoc, vpnRec, last, histVars,
                   tproj, tport, ti, seedCount>>

\* super(Vpn, self).destroy()
DestroyDelete(t) ==
    /\ pc[t] = "delete"
    /\ vpnRec' = destroy_record(vpnRec, tproj[t])
    /\ Goto(t, "idle")
    /\ tproj' = [tproj EXCEPT ![t] = None]
    /\ tport' = [tport EXCEPT ![t] = NoPort]
    /\ UNCHANGED <<storeVars, flagVars, managerVars, keyVars, callVars, freePorts, assoc, last, histVars,
                   ti, seedCount>>

InitVpnConc == InitPool /\ use_vpn = TRUE

NextVpnConc ==
    \E t \in Threads :
        \/ \E name \in ProjectIds : StartCreate(t, name, "u1", {"u2"})
        \/ CreateExistsPorts(t)
        \/ CreateExistsAssoc(t)
        \/ CreateSeed(t)
        \/ CreateSpop(t)
        \/ CreateAssociate(t)
        \/ CreateHset(t)
        \/ \E p \in ProjectIds : StartDestroy(t, p)
        \/ DestroyUnassociate(t)
        \/ DestroySadd(t)
        \/ DestroyDelete(t)

SpecVpnConc == InitVpnConc /\ [][NextVpnConc]_vars

----------------------------------------------------------------------------
(* Vpn.create and Vpn.destroy by one caller that may stop between two
   datastore calls *)

\* the caller stops: the calls already made stay, the rest are never made
Abandon(t) ==
    /\ pc[t] # "idle"
    /\ Goto(t, "idle")
    /\ tproj' = [tproj EXCEPT ![t] = None]
    /\ tport' = [tport EXCEPT ![t] = NoPort]
    /\ ti' = [ti EXCEPT ![t] = NoPort]
    /\ UNCHANGED <<storeVars, flagVars, managerVars, keyVars, callVars, redisVars, last, histVars, seedCount>>

NextVpnAbandon ==
    \E t \in {"th1"} :
        \/ \E name \in ProjectIds : StartCreate(t, name, "u1", {"u2"})
        \/ CreateExistsPorts(t)
        \/ CreateExistsAssoc(t)
        \/ CreateSeed(t)
        \/ CreateSpop(t)
        \/ CreateAssociate(t)
        \/ CreateHset(t)
        \/ \E p \in ProjectIds : StartDestroy(t, p)
        \/ DestroyUnassociate(t)
        \/ DestroySadd(t)
        \/ DestroyDelete(t)
        \/ Abandon(t)

SpecVpnAbandon == InitVpnConc /\ [][NextVpnAbandon]_vars

----------------------------------------------------------------------------
(* The properties *)

PortCount == vpn_end_port - vpn_start_port + 1
Quiescent == \A t \in Threads : pc[t] = "idle"
Holders(port) == {p \in DOMAIN vpnRec : vpnRec[p] = port}
AuthCall == last.op = "authenticate"

\* the signature authenticate recomputes for a user and the request of the call
Expected(user) ==
    IF last.check_type = "s3"
    THEN Signer_s3_authorization(user_secret(user), last.headers, default_verb,
                                 default_path)
    ELSE Signer_generate(user_secret(user), last.params, default_verb,
                         default_server_string, default_path)

C2_AcceptedIsAdminOrMember ==
    AuthCall =>
        /\ last.ret.result = "ok" =>
              \/ is_admin(last.ret.user)
              \/ last.ret.user \in projects[last.ret.project].member_ids
        /\ \A u \in Users, p \in DOMAIN projects :
              (/\ last.access = <<user_access(u), ":", p>>
               /\ ~is_admin(u)
               /\ u \notin projects[p].member_ids)
              => (last.ret.result = "NotFound" /\ last.ret.user = None)

\* C2 happens: a member who is no admin was accepted
C2_Witness ==
    /\ AuthCall
    /\ last.ret.result = "ok"
    /\ ~is_admin(last.ret.user)
    /\ last.ret.user \in projects[last.ret.project].member_ids

\* C3: with check_type 'ec2' or 's3' authenticate returns (user, project) only
\* when the supplied signature equals the one recomputed from the user's secret
\* and the request; a mismatch gives NotAuthorized and no pair.
C3_SignatureMustMatch ==
    (AuthCall /\ last.check_type \in {"ec2", "s3"}) =>
        /\ last.ret.result = "ok" => last.signature = Expected(last.ret.user)
        /\ \A u \in Users, p \in DOMAIN projects :
              (/\ last.access = <<user_access(u), ":", p>>
               /\ (is_admin(u) \/ u \in projects[p].member_ids)
               /\ last.signature # Expected(u))
              => /\ last.ret.result = "NotAuthorized"
                 /\ last.ret.user = None
                 /\ last.ret.project = None

\* C3 happens: an s3 request was accepted on its signature
C3_Witness ==
    /\ AuthCall
    /\ last.check_type = "s3"
    /\ last.ret.result = "ok"
    /\ last.signature = Expected(last.ret.user)

\* C4: once the free set is seeded, every port of the range is in exactly one
\* place, the free set or the Vpn record of exactly one project, whenever no
\* Vpn.create or Vpn.destroy is under way.
C4_EachPortInOnePlace ==
    (Quiescent /\ seedCount > 0) =>
        \A port \in port_range :
            \/ port \in freePorts /\ Holders(port) = {}
            \/ port \notin freePorts /\ Cardinality(Holders(port)) = 1

\* C5: the free set of the address is seeded at most once, and no turn of a
\* seeding loop is about to insert a port that a caller has popped and holds.
C5_SeededAtMostOnce ==
    /\ seedCount <= 1
    /\ \A t \in Threads : pc[t] = "seed" =>
          /\ Holders(ti[t]) = {}
          /\ \A o \in Threads : pc[o] \in {"associate", "hset"} => tport[o] # ti[t]

\* C6: after delete_project of a project that holds a port, the project has no
\* Vpn record and the free-port count is one higher than before the deletion.
C6_DeleteProjectReleasesPort ==
    (last.op = "delete_project" /\ last.had_vpn) =>
        /\ last.project \notin DOMAIN vpnRec
        /\ num_ports_for_ip = last.pre_count + 1

\* C7: with a range of exactly one port at most one allocation is outstanding:
\* a further Vpn.create before the release, sequential or concurrent, gets
\* NoMorePorts and no port.
C7_OnePortOneAllocation ==
    (PortCount = 1 /\ Quiescent) => Cardinality(DOMAIN vpnRec) <= 1

\* C8 as claimed: Vpn.create followed at once by Vpn.destroy of the record it
\* made leaves num_ports_for_ip as it was before the create, the first create
\* on the address included.
C8_RoundTripRestoresCount ==
    (last.op = "Vpn.destroy" /\ last.after_create) =>
        num_ports_for_ip = last.pre_count

\* C8 as amended: Vpn.create followed at once by Vpn.destroy of the record it
\* made leaves num_ports_for_ip as it was before the create when the free set
\* was not empty then; when it was empty (the create seeded it) the count goes
\* from 0 to the size of the port range.
C8_RoundTripRestoresSeededCount ==
    (last.op = "Vpn.destroy" /\ last.after_create) =>
        IF last.pre_count > 0
        THEN num_ports_for_ip = last.pre_count
        ELSE num_ports_for_ip = PortCount

\* C8 happens: a create on a seeded, non-empty free set was undone at once
C8_Witness ==
    /\ last.op = "Vpn.destroy"
    /\ last.after_create
    /\ last.pre_count > 0

\* C9: of the Vpn.create calls made with no Vpn.destroy in between, the first
\* PortCount return pairwise distinct ports of the range and every later one
\* raises NoMorePorts.
C9_FirstNCreationsSucceed ==
    \A i \in 1..Len(hist) :
        IF i <= PortCount
        THEN /\ hist[i] \in port_range
             /\ \A j \in 1..Len(hist) : j # i => hist[j] # hist[i]
        ELSE hist[i] = NoPort

\* C9 happens: a range of several ports was used up and the next create failed
C9_Witness ==
    /\ PortCount > 1
    /\ Len(hist) = PortCount + 1
    /\ hist[Len(hist)] = NoPort

\* C10: add_role and remove_role with role 'projectmanager' fail with
\* InvalidArgument and the store never holds a grant of that role.
C10_ProjectManagerRoleRejected ==
    /\ (last.op \in {"add_role", "remove_role"} /\ last.role = "projectmanager")
          => last.result = "InvalidArgument"
    /\ \A g \in roles : g[2] # "projectmanager"

\* C11: has_role(user, 'projectmanager', project) for a stored project equals
\* (user = project.project_manager_id) whatever grants the store holds, and
\* has_role(user, 'projectmanager') with no project raises an error.
C11_ProjectManagerIsTheManager ==
    /\ \A u \in Users, p \in DOMAIN projects :
          /\ ~has_role_raises(u, "projectmanager", p)
          /\ has_role(u, "projectmanager", p) = (u = projects[p].project_manager_id)
    /\ \A u \in Users : has_role_raises(u, "projectmanager", None)
    /\ (last.op = "has_role" /\ last.role = "projectmanager") =>
          IF last.project = None THEN last.result = "Error"
          ELSE last.project \in DOMAIN projects =>
                 last.result =
                    IF last.user = projects[last.project].project_manager_id
                    THEN "True" ELSE "False"

\* C11 happens: has_role denied 'projectmanager' to a user who is not the
\* manager although the store holds that grant for the user in the project
C11_Witness ==
    /\ last.op = "has_role"
    /\ last.role = "projectmanager"
    /\ last.project \in DOMAIN projects
    /\ <<last.user, "projectmanager", last.project>> \in roles
    /\ last.user # projects[last.project].project_manager_id
    /\ last.result = "False"

C13_HasRoleIsUnion ==
    \A u \in Users, r \in Roles \ {"projectmanager"}, p \in CheckScopes \ {None} :
        (drv_has_role(u, r, None) \/ drv_has_role(u, r, p)) => has_role(u, r, p)

\* C15: for a user without the admin flag is_superuser is truthy exactly when
\* the user holds a superuser role globally, and is_admin exactly when
\* is_superuser is or the user holds a global role globally; grants scoped to
\* a project change neither.
C15_AdminNeedsGlobalGrant ==
    /\ \A u \in Users : ~userAdmin[u] =>
          /\ is_superuser(u) = (\E r \in superuser_roles : <<u, r, None>> \in roles)
          /\ is_admin(u) = (\/ \E r \in superuser_roles : <<u, r, None>> \in roles
                            \/ \E r \in global_roles : <<u, r, None>> \in roles)
    /\ (last.op = "is_superuser" /\ ~userAdmin[last.user]) =>
          (last.result = "True") =
              (\E r \in superuser_roles : <<last.user, r, None>> \in roles)
    /\ (last.op = "is_admin" /\ ~userAdmin[last.user]) =>
          (last.result = "True") =
              (\E r \in superuser_roles \cup global_roles :
                  <<last.user, r, None>> \in roles)

\* C15 happens: a user holding a superuser role in a project only was found
\* to be no superuser
C15_Witness ==
    /\ last.op = "is_superuser"
    /\ ~userAdmin[last.user]
    /\ \E r \in superuser_roles, p \in ProjectIds : <<last.user, r, p>> \in roles
    /\ last.result = "None"

\* the user an access string names, by its first token
KeyOwner(u) == last.access[1] = user_access(u)

\* the project an access string names: the one after the colon, or the one
\* called like the user
NamedProject(u) == IF Len(last.access) = 3 THEN last.access[3] ELSE user_name(u)

MayEnter(u, p) == is_admin(u) \/ u \in projects[p].member_ids

\* C14: for every user with the admin flag is_superuser and is_admin are true
\* whatever grants the store holds, and authenticate never rejects such a user
\* for lack of project membership.
C14_AdminFlagOverrides ==
    /\ \A u \in Users : userAdmin[u] => (is_superuser(u) /\ is_admin(u))
    /\ (last.op \in {"is_superuser", "is_admin"} /\ userAdmin[last.user]) =>
          last.result = "True"
    /\ AuthCall =>
          \A u \in Users : (KeyOwner(u) /\ userAdmin[u]) =>
              /\ last.ret.stage # "membership"
              /\ (NamedProject(u) \in DOMAIN projects
                  /\ last.check_type = "none") => last.ret.result = "ok"

\* C14 happens: a flagged user with no grant, no member of the project, was
\* authenticated
C14_Witness ==
    /\ AuthCall
    /\ last.ret.result = "ok"
    /\ userAdmin[last.ret.user]
    /\ last.ret.user \notin projects[last.ret.project].member_ids
    /\ \A g \in roles : g[1] # last.ret.user

\* C16: for a check_type other than 'ec2' and 's3' authenticate compares no
\* signature: it returns (user, project) for every signature once user and
\* project resolve and the membership check passes.
C16_OtherCheckTypeSkipsSignature ==
    (AuthCall /\ last.check_type \notin {"ec2", "s3"}) =>
        \A u \in Users :
            (/\ KeyOwner(u)
             /\ NamedProject(u) \in DOMAIN projects
             /\ MayEnter(u, NamedProject(u)))
            => /\ last.ret.result = "ok"
               /\ last.ret.user = u
               /\ last.ret.project = NamedProject(u)

\* C16 happens: a request whose signature fits neither scheme was accepted
C16_Witness ==
    /\ AuthCall
    /\ last.check_type = "none"
    /\ last.ret.result = "ok"
    /\ last.signature #
          Signer_generate(user_secret(last.ret.user), last.params, default_verb,
                          default_server_string, default_path)
    /\ last.signature #
          Signer_s3_authorization(user_secret(last.ret.user), last.headers,
                                  default_verb, default_path)

\* C17: for u1 (access key AK1), member of t1, authenticate('AK1:t1', sig,
\* params, 'ec2') returns (u1, t1) when sig is the signature of u1's secret
\* over the request; with another value of the parameters and the same sig it
\* fails with NotAuthorized; naming a project of which u1 is no member, u1 no
\* admin, it fails with NotFound.
C17_EndToEnd ==
    (AuthCall /\ last.check_type = "ec2" /\ last.access[1] = "AK1"
     /\ Len(last.access) = 3) =>
        /\ (last.access[3] = "t1" /\ "u1" \in projects["t1"].member_ids) =>
              /\ last.signature =
                    Signer_generate("SK1", last.params, default_verb,
                                    default_server_string, default_path)
                 => last.ret = [result |-> "ok", stage |-> "done",
                                user |-> "u1", project |-> "t1"]
              /\ (\E other \in ParamLists \ {last.params} :
                    last.signature =
                        Signer_generate("SK1", other, default_verb,
                                        default_server_string, default_path))
                 => last.ret.result = "NotAuthorized"
        /\ (/\ last.access[3] \in DOMAIN projects
            /\ "u1" \notin projects[last.access[3]].member_ids
            /\ ~is_admin("u1")) => last.ret.result = "NotFound"

\* C17 happens: the request signed for other parameters was refused
C17_Witness ==
    /\ AuthCall
    /\ last.check_type = "ec2"
    /\ last.access = <<"AK1", ":", "t1">>
    /\ "u1" \in projects["t1"].member_ids
    /\ last.params = "Action=b"
    /\ last.signature = Signer_generate("SK1", "Action=a", default_verb,
                                        default_server_string, default_path)
    /\ last.ret.result = "NotAuthorized"

\* C18: a rejected authenticate has the same outcome whatever made it fail:
\* any other access string or signature that is rejected too, with the rest of
\* the request the same, is rejected with the same error.
C18_UniformRejection ==
    (AuthCall /\ last.ret.result # "ok") =>
        \A a \in AccessStrings, s \in Signatures :
            LET other == authenticate(a, s, last.params, last.check_type,
                                      last.headers)
            IN  other.result # "ok" => other.result = last.ret.result

\* C20: authenticate checks user, project, membership and signature in this
\* order and stops at the first failure: the error is that of the earliest
\* failing stage, and the signature stage is reached only when the three
\* before it passed.
C20_StagesInOrder ==
    AuthCall =>
        IF \A u \in Users : ~KeyOwner(u)
        THEN last.ret.result = "NotFound" /\ last.ret.stage = "user"
        ELSE \A u \in Users : KeyOwner(u) =>
            IF NamedProject(u) \notin DOMAIN projects
            THEN last.ret.result = "NotFound" /\ last.ret.stage = "project"
            ELSE IF ~MayEnter(u, NamedProject(u))
            THEN last.ret.result = "NotFound" /\ last.ret.stage = "membership"
            ELSE IF last.check_type \in {"ec2", "s3"}
                    /\ last.signature # Expected(u)
            THEN last.ret.result = "NotAuthorized" /\ last.ret.stage = "signature"
            ELSE last.ret.result = "ok" /\ last.ret.stage = "done"

\* C20 happens: a non-member with a wrong signature got NotFound
C20_Witness ==
    /\ AuthCall
    /\ last.check_type = "ec2"
    /\ \E u \in Users :
          /\ KeyOwner(u)
          /\ NamedProject(u) \in DOMAIN projects
          /\ ~MayEnter(u, NamedProject(u))
          /\ last.signature # Expected(u)
    /\ last.ret.result = "NotFound"
    /\ last.ret.stage = "membership"

\* C19: get_credentials for a project without a stored Vpn record fails with
\* exception.Error (the ConfigurationError of the taxonomy) and returns no
\* bundle; it returns a bundle only when a Vpn record exists for the project.
C19_NoVpnRecordIsConfigurationError ==
    last.op = "get_credentials" =>
        /\ last.project \notin DOMAIN vpnRec => last.result = "Error"
        /\ last.result = "bundle" => last.project \in DOMAIN vpnRec

\* C21: when create_project runs with use_vpn set and the allocation fails
\* with NoMorePorts, the caller gets NoMorePorts (no second attempt takes a
\* port), and the project record made before the failure stays in the
\* identity store, with no Vpn record and no association.
C21_NoMorePortsLeavesProject ==
    (last.op = "create_project" /\ last.result = "NoMorePorts") =>
        /\ use_vpn
        /\ last.port = NoPort
        /\ last.project \in DOMAIN projects
        /\ last.project \notin DOMAIN vpnRec
        /\ last.project \notin assoc
        /\ freePorts = {}

\* C22: a Vpn.create or Vpn.destroy that its caller abandons between two
\* datastore calls leaves the pool consistent: once the pool holds anything
\* (so that it is not seeded again), every port of the range is in the free
\* set or in the Vpn record of a project.
C22_AbandonLeavesPoolConsistent ==
    (Quiescent /\ (redis_exists(freePorts) \/ redis_exists(assoc))) =>
        \A port \in port_range : port \in freePorts \/ Holders(port) # {}

\* C23: every call AuthManager() that returns, returns the singleton with its
\* driver attribute set, also after an earlier call failed to load the driver.
C23_SingletonHasDriver ==
    (last.op = "AuthManager" /\ last.result = "instance") =>
        instance = "AuthManager" /\ driver # None

\* C24: generate_key_pair checks before it generates: for a user that does not
\* exist it fails with NotFound, for a name the user already has with
\* Duplicate, and then no key is generated and the stored key pairs are
\* unchanged; otherwise exactly one key pair of that name is stored for the
\* user and the other key pairs are as before.
C24_KeyPairCheckedBeforeGenerated ==
    last.op = "generate_key_pair" =>
        LET key == <<last.user, last.key_name>>
            existed == last.user \in Users /\ last.before[key] > 0
        IN  /\ last.user \notin Users => last.result = "NotFound"
            /\ existed => last.result = "Duplicate"
            /\ last.result \in {"NotFound", "Duplicate"} =>
                  ~last.generated /\ key_pairs = last.before
            /\ (last.user \in Users /\ ~existed) =>
                  /\ last.result = "ok"
                  /\ last.generated
                  /\ key_pairs[key] = 1
                  /\ \A o \in DOMAIN key_pairs \ {key} : key_pairs[o] = last.before[o]

\* C24 happens: a second key pair of the same name was refused while the user
\* has another key pair too
C24_Witness ==
    /\ last.op = "generate_key_pair"
    /\ last.result = "Duplicate"
    /\ \E k \in KeyNames \ {last.key_name} : key_pairs[<<last.user, k>>] = 1

\* C25: authenticate, accepting or rejecting, changes no shared state: users,
\* projects, memberships, role grants, key pairs, Vpn records and free ports
\* are after the call what they were before, so the same request gets the
\* same answer again, however many authentications run.
C25_AuthenticateChangesNothing ==
    [][(last'.op = "authenticate" /\ last' # last) =>
          /\ UNCHANGED <<storeVars, keyVars, redisVars, flagVars, managerVars>>
          /\ (last.ret = authenticate(last.access, last.signature, last.params,
                                      last.check_type, last.headers))']_vars

\* C25 happens: a request was accepted in a store that holds a grant and a
\* key pair
C25_Witness ==
    /\ AuthCall
    /\ last.ret.result = "ok"
    /\ roles # {}
    /\ key_pairs[<<"u1", "k1">>] = 1

\* C26: when grants are added and removed while has_role(user, role, project)
\* runs (role not 'projectmanager', not in global_roles, project given), a
\* result of true means that at one moment during the call the user held the
\* global grant and the project grant together.
C26_TrueMeansBothHeldAtOnce ==
    (/\ last.op = "has_role"
     /\ last.role \notin global_roles
     /\ last.project # None
     /\ last.result = "True") => last.both

====
